---- MODULE Spec2Model ----
(***************************************************************************)
(* Model of the ESLint rule "declaration-order" (eslint-vue-setup-order).  *)
(*                                                                         *)
(* The rule classifies the top-level statements of a <script setup> block  *)
(* into sections, sorts them, groups them and regenerates the text of the  *)
(* block; when the regenerated text differs from the original it reports   *)
(* one fix that replaces the whole span of the non-import statements.      *)
(*                                                                         *)
(* Source text is a sequence of tokens.  A line break is one token, a      *)
(* comment is one token and a statement is one or two code tokens (its     *)
(* parts) with the white space that separates them.  The parser is a       *)
(* function of the text alone: the code token carries the key of the       *)
(* statement's syntax tree in the catalogue Node.                          *)
(***************************************************************************)
EXTENDS Integers, Sequences, FiniteSets, TLC

(***************************************************************************)
(* Bounds of the model.                                                    *)
(***************************************************************************)
MaxStmts == 3      \* statements of a program in the text-level families
MaxSortLen == 4    \* statements of a program in the sort-level family
MaxPasses == 2     \* fixes the host applies before it stops re-linting
MaxClassifyLen == 2  \* statements of a program in the classifier family

NULL == "null"     \* JavaScript null / a function returning nothing

(***************************************************************************)
(* Generic sequence helpers.                                               *)
(***************************************************************************)
Range(s) == {s[i] : i \in DOMAIN s}

Includes(s, x) == \E i \in DOMAIN s : s[i] = x

\* Array.prototype.indexOf, 0-based, -1 when absent
IndexOf(s, x) ==
  IF Includes(s, x)
    THEN (CHOOSE i \in DOMAIN s : s[i] = x /\ \A j \in 1..(i - 1) : s[j] # x) - 1
    ELSE -1

RECURSIVE Flatten(_)
Flatten(ss) == IF ss = <<>> THEN <<>> ELSE Head(ss) \o Flatten(Tail(ss))

\* Array.prototype.join: the elements of ss (sequences) separated by sep
RECURSIVE Join(_, _)
Join(ss, sep) ==
  IF ss = <<>> THEN <<>>
  ELSE IF Len(ss) = 1 THEN ss[1]
  ELSE ss[1] \o sep \o Join(Tail(ss), sep)

\* String.prototype.slice / Array.prototype.slice on 0-based offsets [from, to)
Slice(s, from, to) == SubSeq(s, from + 1, to)

(***************************************************************************)
(* lib/constants.js                                                        *)
(***************************************************************************)
DEFAULT_SECTION_ORDER ==
  << "type", "defineProps", "defineEmits", "defineOthers", "class",
     "plainVars", "reactiveVars", "composables", "computed", "watchers",
     "lifecycle", "unknowns", "functions" >>

LIFECYCLE_LIST ==
  << "onBeforeMount", "onMounted", "onBeforeUpdate", "onUpdated",
     "onBeforeUnmount", "onUnmounted", "onErrorCaptured", "onRenderTracked",
     "onRenderTriggered", "onActivated", "onDeactivated", "onServerPrefetch" >>

DEFAULT_LIFECYCLE_ORDER ==
  [h \in Range(LIFECYCLE_LIST) |-> IndexOf(LIFECYCLE_LIST, h)]

INTERFACE_LIST == << "defineModel", "defineExpose", "defineOptions", "defineSlots" >>

DECLARE_LIST ==
  << "ref", "reactive", "shallowRef", "shallowReactive", "shallowReadonly",
     "markRaw" >>

(***************************************************************************)
(* Callee names.  TLC cannot take a string apart, so the characters of the *)
(* identifiers that occur in the modelled programs are tabulated and       *)
(* String.prototype.startsWith is computed on them.                        *)
(***************************************************************************)
OtherNames == { "useRoute", "user", "unused", "computed", "watch", "foo",
                "defineProps", "defineEmits" }

CalleeNames ==
  Range(INTERFACE_LIST) \cup Range(DECLARE_LIST) \cup Range(LIFECYCLE_LIST)
    \cup OtherNames

Chars(name) ==
  CASE name = "useRoute" -> << "u", "s", "e", "R", "o", "u", "t", "e" >>
    [] name = "user"     -> << "u", "s", "e", "r" >>
    [] name = "use"      -> << "u", "s", "e" >>
    [] name = "unused"   -> << "u", "n", "u", "s", "e", "d" >>
    [] name = "computed" -> << "c", "o", "m", "p", "u", "t", "e", "d" >>
    [] name = "watch"    -> << "w", "a", "t", "c", "h" >>
    [] name = "foo"      -> << "f", "o", "o" >>
    \* the hook names all begin with "on", the define macros with "define",
    \* the shallow* helpers with "shallow": the common prefix decides startsWith
    [] name \in Range(LIFECYCLE_LIST) -> << "o", "n" >>
    [] name \in Range(INTERFACE_LIST) \cup {"defineProps", "defineEmits"}
                         -> << "d", "e", "f", "i", "n", "e" >>
    [] name = "ref"      -> << "r", "e", "f" >>
    [] name = "reactive" -> << "r", "e", "a", "c", "t", "i", "v", "e" >>
    [] name = "markRaw"  -> << "m", "a", "r", "k", "R", "a", "w" >>
    [] OTHER             -> << "s", "h", "a", "l", "l", "o", "w" >>

StartsWith(name, prefix) ==
  LET c == Chars(name)
      p == Chars(prefix)
  IN  Len(c) >= Len(p) /\ SubSeq(c, 1, Len(p)) = p

(***************************************************************************)
(* Syntax trees.  Every node has the fields type, callee, expression and   *)
(* declarations; the fields a node type does not have hold NoNode / <<>>.  *)
(***************************************************************************)
NoNode == [type |-> NULL]

Ident(n) == [type |-> "Identifier", name |-> n]

Member == [type |-> "MemberExpression", name |-> NULL]

Call(callee) == [type |-> "CallExpression", callee |-> callee]

Leaf(t) == [type |-> t]

\* a type assertion / cast wrapper around e
Cast(t, e) == [type |-> t, expression |-> e]

VarDecl(inits) == [type |-> "VariableDeclaration",
                   declarations |-> [i \in DOMAIN inits |-> [init |-> inits[i]]]]

ExprStmt(e) == [type |-> "ExpressionStatement", expression |-> e]


(***************************************************************************)
(* The statements that occur in the modelled programs, by key.             *)
(***************************************************************************)
Node(src) ==
  CASE src = "import"        -> Leaf("ImportDeclaration")
    [] src = "class"         -> Leaf("ClassDeclaration")
    [] src = "typeAlias"     -> Leaf("TSTypeAliasDeclaration")
    [] src = "interface"     -> Leaf("TSInterfaceDeclaration")
    [] src = "function"      -> Leaf("FunctionDeclaration")
    [] src = "propsVar"      -> VarDecl(<< Call(Ident("defineProps")) >>)
    [] src = "emitsVar"      -> VarDecl(<< Call(Ident("defineEmits")) >>)
    [] src = "emitsCall"     -> ExprStmt(Call(Ident("defineEmits")))
    [] src = "exposeCall"    -> ExprStmt(Call(Ident("defineExpose")))
    [] src = "modelVar"      -> VarDecl(<< Call(Ident("defineModel")) >>)
    [] src = "optionsCall"   -> ExprStmt(Call(Ident("defineOptions")))
    [] src = "slotsVar"      -> VarDecl(<< Call(Ident("defineSlots")) >>)
    [] src = "plainVar"      -> VarDecl(<< Leaf("Literal") >>)
    [] src = "refVar"        -> VarDecl(<< Call(Ident("ref")) >>)
    [] src = "reactiveVar"   -> VarDecl(<< Call(Ident("reactive")) >>)
    [] src = "castRefVar"    -> VarDecl(<< Cast("TSAsExpression", Call(Ident("ref"))) >>)
    [] src = "cast2ArrowVar" ->
         VarDecl(<< Cast("TSTypeAssertion",
                         Cast("TSAsExpression", Leaf("ArrowFunctionExpression"))) >>)
    [] src = "arrowVar"      -> VarDecl(<< Leaf("ArrowFunctionExpression") >>)
    [] src = "funcExprVar"   -> VarDecl(<< Leaf("FunctionExpression") >>)
    [] src = "useRouteVar"   -> VarDecl(<< Call(Ident("useRoute")) >>)
    [] src = "useRouteCall"  -> ExprStmt(Call(Ident("useRoute")))
    [] src = "userCall"      -> ExprStmt(Call(Ident("user")))
    [] src = "unusedCall"    -> ExprStmt(Call(Ident("unused")))
    [] src = "computedVar"   -> VarDecl(<< Call(Ident("computed")) >>)
    [] src = "watchCall"     -> ExprStmt(Call(Ident("watch")))
    [] src = "onBeforeMount" -> ExprStmt(Call(Ident("onBeforeMount")))
    [] src = "onMounted"     -> ExprStmt(Call(Ident("onMounted")))
    [] src = "onUpdated"     -> ExprStmt(Call(Ident("onUpdated")))
    [] src = "onUnmountedVar" -> VarDecl(<< Call(Ident("onUnmounted")) >>)
    [] src = "castHookVar"   ->
         VarDecl(<< Cast("TSAsExpression", Call(Ident("onMounted"))) >>)
    [] src = "memberCall"    -> ExprStmt(Call(Member))
    [] src = "memberCallVar" -> VarDecl(<< Call(Member) >>)
    [] src = "fooCall"       -> ExprStmt(Call(Ident("foo")))
    [] src = "fooVar"        -> VarDecl(<< Call(Ident("foo")) >>)
    [] src = "noInitVar"     -> VarDecl(<< NoNode >>)
    [] src = "refThenArrow"  ->
         VarDecl(<< Call(Ident("ref")), Leaf("ArrowFunctionExpression") >>)
    [] src = "plainThenRef"  -> VarDecl(<< Leaf("Literal"), Call(Ident("ref")) >>)
    [] src = "assign"        -> ExprStmt(Leaf("AssignmentExpression"))
    [] src = "castWatchStmt" ->
         ExprStmt(Cast("TSAsExpression", Call(Ident("watch"))))
    [] OTHER                 -> Leaf("IfStatement")

(***************************************************************************)
(* lib/utils/astUtils.js                                                   *)
(***************************************************************************)
isTSNode(n) == n.type = "TSAsExpression" \/ n.type = "TSTypeAssertion"

\* mutant: one cast is taken off, the casts under it stay
unwrapTypeCastOnce(node) ==
  IF node.type # NULL /\ isTSNode(node) THEN node.expression ELSE node

RECURSIVE unwrapTypeCast(_)
unwrapTypeCast(node) ==
  IF node.type # NULL /\ isTSNode(node)
    THEN unwrapTypeCast(node.expression)
    ELSE node

isCallExpression(expression) ==
  /\ expression.type = "CallExpression"
  /\ expression.callee.type = "Identifier"

getCallExpressionSection(calleeName) ==
  IF calleeName = "defineProps" THEN "defineProps"
  ELSE IF calleeName = "defineEmits" THEN "defineEmits"
  ELSE IF calleeName = "defineExpose" THEN "defineExpose"
  ELSE IF calleeName = "defineSlots" THEN "defineSlots"
  ELSE IF calleeName = "defineModel" THEN "defineModel"
  ELSE IF calleeName = "defineOptions" THEN "defineOptions"
  ELSE IF Includes(DECLARE_LIST, calleeName) THEN "reactiveVars"
  ELSE IF StartsWith(calleeName, "use") THEN "composables"
  ELSE IF calleeName = "computed" THEN "computed"
  ELSE IF calleeName = "watch" THEN "watchers"
  ELSE IF Includes(LIFECYCLE_LIST, calleeName) THEN "lifecycle"
  ELSE NULL

\* mutant: the initializer is looked at as written, casts are not unwrapped
getVariableDeclarationSectionNoUnwrap(node) ==
  LET declaration == node.declarations[1]
      initNode == declaration.init
      section == getCallExpressionSection(initNode.callee.name)
  IN  IF Len(node.declarations) > 0 /\ declaration.init.type # NULL
        THEN IF \/ initNode.type = "FunctionExpression"
                \/ initNode.type = "ArrowFunctionExpression"
               THEN "functions"
             ELSE IF isCallExpression(initNode) /\ section # NULL
               THEN section
             ELSE "plainVars"
        ELSE "plainVars"

\* mutant: a declaration without an initializer is "unknowns"
getVariableDeclarationSectionNoInit(node) ==
  LET declaration == node.declarations[1]
      initNode == unwrapTypeCast(declaration.init)
      section == getCallExpressionSection(initNode.callee.name)
  IN  IF Len(node.declarations) > 0 /\ declaration.init.type # NULL
        THEN IF \/ initNode.type = "FunctionExpression"
                \/ initNode.type = "ArrowFunctionExpression"
               THEN "functions"
             ELSE IF isCallExpression(initNode) /\ section # NULL
               THEN section
             ELSE "plainVars"
        ELSE "unknowns"

\* mutant: the last declarator decides, not the first
getVariableDeclarationSectionLast(node) ==
  LET declaration == node.declarations[Len(node.declarations)]
      initNode == unwrapTypeCast(declaration.init)
      section == getCallExpressionSection(initNode.callee.name)
  IN  IF Len(node.declarations) > 0 /\ declaration.init.type # NULL
        THEN IF \/ initNode.type = "FunctionExpression"
                \/ initNode.type = "ArrowFunctionExpression"
               THEN "functions"
             ELSE IF isCallExpression(initNode) /\ section # NULL
               THEN section
             ELSE "plainVars"
        ELSE "plainVars"

getVariableDeclarationSection(node) ==
  LET declaration == node.declarations[1]
      initNode == unwrapTypeCast(declaration.init)
      section == getCallExpressionSection(initNode.callee.name)
  IN  IF Len(node.declarations) > 0 /\ declaration.init.type # NULL
        THEN IF \/ initNode.type = "FunctionExpression"
                \/ initNode.type = "ArrowFunctionExpression"
               THEN "functions"
             ELSE IF isCallExpression(initNode) /\ section # NULL
               THEN section
             ELSE "plainVars"
        ELSE "plainVars"

getSection(node) ==
  CASE node.type = "ImportDeclaration" -> NULL
    [] node.type = "ClassDeclaration" -> "class"
    [] node.type \in {"TSTypeAliasDeclaration", "TSInterfaceDeclaration"} -> "type"
    [] node.type = "VariableDeclaration" -> getVariableDeclarationSection(node)
    [] node.type = "FunctionDeclaration" -> "functions"
    [] node.type = "ExpressionStatement" ->
         LET section == getCallExpressionSection(node.expression.callee.name)
         IN  IF isCallExpression(node.expression) /\ section # NULL
               THEN section
               ELSE "unknowns"
    [] OTHER -> "unknowns"

extractLifecycleHookName(node) ==
  IF node.type = "VariableDeclaration"
    THEN LET declaration == node.declarations[1]
             initNode == unwrapTypeCast(declaration.init)
         IN  IF Len(node.declarations) > 0 /\ declaration.init.type # NULL
               THEN IF isCallExpression(initNode) THEN initNode.callee.name ELSE NULL
               ELSE NULL     \* falls off the end: undefined
  ELSE IF node.type = "ExpressionStatement"
    THEN IF isCallExpression(node.expression)
           THEN node.expression.callee.name
           ELSE NULL
  ELSE NULL

\* mutant: every section is a group of its own
groupNameOwn(section) == section

groupName(section) ==
  LET defineGroup == << "defineProps", "defineEmits" >>
  IN  IF Includes(defineGroup, section) THEN "define" ELSE section

(***************************************************************************)
(* Source text and the host's parser (ESLint SourceCode).                  *)
(***************************************************************************)
NL == [k |-> "nl", id |-> 0, part |-> 0, of |-> 0, src |-> ""]

Comment(id) == [k |-> "comment", id |-> id, part |-> 0, of |-> 0, src |-> ""]

\* part `part` of the `of` parts of statement id, whose syntax tree is Node(src)
Code(id, part, of, src) == [k |-> "code", id |-> id, part |-> part, of |-> of, src |-> src]

\* the class \s of the regular expressions, and of String.prototype.trim
IsSpace(t) == t.k \in {"nl", "sp"}

\* the positions (1-based) at which a statement starts, in text order
StmtStarts(txt) == {p \in DOMAIN txt : txt[p].k = "code" /\ txt[p].part = 1}

StmtEnd(txt, p) ==
  CHOOSE q \in p..Len(txt) :
    /\ txt[q].k = "code" /\ txt[q].id = txt[p].id /\ txt[q].part = txt[p].of
    /\ \A r \in p..(q - 1) :
         ~(txt[r].k = "code" /\ txt[r].id = txt[p].id /\ txt[r].part = txt[p].of)

\* Program.body: the statements of the text with their ranges [start, end)
ProgramBody(txt) ==
  LET P == StmtStarts(txt)
      nth(i) == CHOOSE p \in P : Cardinality({q \in P : q < p}) = i - 1
  IN  [i \in 1..Cardinality(P) |->
         Node(txt[nth(i)].src) @@
           [range |-> << nth(i) - 1, StmtEnd(txt, nth(i)) >>, id |-> txt[nth(i)].id]]

\* sourceCode.getText(node)
getText(txt, node) == Slice(txt, node.range[1], node.range[2])

\* sourceCode.getCommentsBefore(node): the comments between the previous code
\* token and the node, in text order (each comment is its own text)
getCommentsBefore(txt, node) ==
  LET start == node.range[1] + 1
      C == {c \in 1..(start - 1) :
              /\ txt[c].k = "comment"
              /\ \A r \in c..(start - 1) : txt[r].k # "code"}
      nth(i) == CHOOSE c \in C : Cardinality({d \in C : d < c}) = i - 1
  IN  [i \in 1..Cardinality(C) |-> << txt[nth(i)] >>]

(***************************************************************************)
(* lib/utils/orderUtils.js                                                 *)
(***************************************************************************)
Num(n) == [t |-> "number", v |-> n]

Null == [t |-> "null", v |-> 0]

\* mutant: the configured lifecycleOrder is ignored, the default one is used
getLifecycleSortIndexDefault(node, lifecycleOrder) ==
  LET hookName == extractLifecycleHookName(node)
  IN  IF hookName # NULL /\ hookName \in DOMAIN DEFAULT_LIFECYCLE_ORDER
        THEN Num(DEFAULT_LIFECYCLE_ORDER[hookName])
        ELSE Num(Cardinality(DOMAIN DEFAULT_LIFECYCLE_ORDER))

getLifecycleSortIndex(node, lifecycleOrder) ==
  LET hookName == extractLifecycleHookName(node)
      hasHookName == hookName # NULL /\ hookName \in DOMAIN lifecycleOrder
  IN  IF hasHookName
        THEN Num(lifecycleOrder[hookName])
        ELSE Num(Cardinality(DOMAIN lifecycleOrder))

\* mutant: the index is used as it is, -1 for a section that is not listed
sortIndexOfRaw(section, sectionOrder) == IndexOf(sectionOrder, section)

sortIndexOf(section, sectionOrder) ==
  LET idx == IndexOf(sectionOrder, section)
  IN  IF idx # -1 THEN idx ELSE Len(sectionOrder)

createNodeWithSection(node, index, txt, sectionOrder, lifecycleOrder) ==
  LET section == getSection(node)
      comments == getCommentsBefore(txt, node)
      nodeText == getText(txt, node)
      text == IF Len(comments) > 0
                THEN Join(comments, << NL >>) \o << NL >> \o nodeText
                ELSE nodeText
  IN  [ node |-> node,
        index |-> index,
        section |-> section,
        sortIndex |-> sortIndexOf(section, sectionOrder),
        text |-> text,
        lifecycleSortIndex |->
          IF section = "lifecycle"
            THEN getLifecycleSortIndex(node, lifecycleOrder)
            ELSE Null,
        comments |-> comments ]

\* mutant: the comparator looks at the source position only
compareNodesByIndex(a, b) == a.index - b.index

\* the comparator of sortNodes: negative, zero or positive
compareNodes(a, b) ==
  LET aNum == a.lifecycleSortIndex.t = "number"
      bNum == b.lifecycleSortIndex.t = "number"
      \* aLifecycleSortIndex - bLifecycleSortIndex, Infinity for a non-number
      lifecycleDiff ==
        IF aNum /\ bNum THEN a.lifecycleSortIndex.v - b.lifecycleSortIndex.v
        ELSE IF aNum THEN -1
        ELSE IF bNum THEN 1
        ELSE 0
  IN  IF a.sortIndex # b.sortIndex THEN a.sortIndex - b.sortIndex
      ELSE IF a.section = "lifecycle" /\ b.section = "lifecycle" /\ lifecycleDiff # 0
        THEN lifecycleDiff
      ELSE a.index - b.index

(***************************************************************************)
(* Array.prototype.sort as the engine that runs the rule performs it on a  *)
(* short array: the leading run is found (and reversed when it descends),  *)
(* then every later element is placed by binary insertion.  With a         *)
(* consistent comparator the result is the one sorted, stable order.       *)
(***************************************************************************)
Reverse(s) == [i \in 1..Len(s) |-> s[Len(s) + 1 - i]]

\* last position of the run that starts at 1 and is known to reach idx
RECURSIVE RunEnd(_, _, _)
RunEnd(a, descending, idx) ==
  IF idx = Len(a) THEN idx
  ELSE LET order == compareNodes(a[idx + 1], a[idx])
       IN  IF descending
             THEN IF order >= 0 THEN idx ELSE RunEnd(a, descending, idx + 1)
             ELSE IF order < 0 THEN idx ELSE RunEnd(a, descending, idx + 1)

\* offsets are 0-based as in the engine: the pivot goes to offset `left`
RECURSIVE BinarySearch(_, _, _, _)
BinarySearch(a, pivot, left, right) ==
  IF left >= right THEN left
  ELSE LET mid == left + ((right - left) \div 2)
       IN  IF compareNodes(pivot, a[mid + 1]) < 0
             THEN BinarySearch(a, pivot, left, mid)
             ELSE BinarySearch(a, pivot, mid + 1, right)

\* a[1..start] is sorted; insert a[start + 1], a[start + 2], ...
RECURSIVE BinaryInsertionSort(_, _)
BinaryInsertionSort(a, start) ==
  IF start >= Len(a) THEN a
  ELSE LET pivot == a[start + 1]
           left == BinarySearch(a, pivot, 0, start)
       IN  BinaryInsertionSort(
             SubSeq(a, 1, left) \o << pivot >> \o SubSeq(a, left + 1, start)
               \o SubSeq(a, start + 2, Len(a)),
             start + 1)

ArraySort(a) ==
  IF Len(a) < 2 THEN a
  ELSE LET descending == compareNodes(a[2], a[1]) < 0
           runLength == RunEnd(a, descending, 2)
           run == SubSeq(a, 1, runLength)
           made == (IF descending THEN Reverse(run) ELSE run)
                     \o SubSeq(a, runLength + 1, Len(a))
       IN  BinaryInsertionSort(made, runLength)

sortNodes(nodesWithSection) == ArraySort(nodesWithSection)

\* mutant: a new group starts whenever the section, not the group name, changes
RECURSIVE groupNodesFromBySection(_, _, _, _)
groupNodesFromBySection(sortedNodes, i, groups, cur) ==
  IF i > Len(sortedNodes) THEN Append(groups, cur)
  ELSE LET item == sortedNodes[i]
           isSameGroup == item.section = sortedNodes[i - 1].section
       IN  IF isSameGroup
             THEN groupNodesFromBySection(sortedNodes, i + 1, groups,
                    [ group |-> cur.group,
                      items |-> Append(cur.items, item),
                      range |-> << cur.range[1], item.node.range[2] >> ])
             ELSE groupNodesFromBySection(sortedNodes, i + 1, Append(groups, cur),
                    [ group |-> groupName(item.section),
                      items |-> << item >>,
                      range |-> << item.node.range[1], item.node.range[2] >> ])

\* the loop of groupNodes from item i on; cur is the group being built
RECURSIVE groupNodesFrom(_, _, _, _)
groupNodesFrom(sortedNodes, i, groups, cur) ==
  IF i > Len(sortedNodes) THEN Append(groups, cur)
  ELSE LET item == sortedNodes[i]
           itemGroupName == groupName(item.section)
           isSameGroup == itemGroupName = cur.group
       IN  IF isSameGroup
             THEN groupNodesFrom(sortedNodes, i + 1, groups,
                    [ group |-> cur.group,
                      items |-> Append(cur.items, item),
                      range |-> << cur.range[1], item.node.range[2] >> ])
             ELSE groupNodesFrom(sortedNodes, i + 1, Append(groups, cur),
                    [ group |-> itemGroupName,
                      items |-> << item >>,
                      range |-> << item.node.range[1], item.node.range[2] >> ])

\* mutant: the group being built when the loop ends is not pushed
groupNodesNoFinalPush(sortedNodes) ==
  IF Len(sortedNodes) = 0 THEN <<>>
  ELSE LET all == groupNodesFrom(sortedNodes, 2, <<>>,
                    [ group |-> groupName(sortedNodes[1].section),
                      items |-> << sortedNodes[1] >>,
                      range |-> << sortedNodes[1].node.range[1],
                                   sortedNodes[1].node.range[2] >> ])
       IN  SubSeq(all, 1, Len(all) - 1)

groupNodes(sortedNodes) ==
  IF Len(sortedNodes) = 0 THEN <<>>
  ELSE groupNodesFrom(sortedNodes, 2, <<>>,
         [ group |-> groupName(sortedNodes[1].section),
           items |-> << sortedNodes[1] >>,
           range |-> << sortedNodes[1].node.range[1], sortedNodes[1].node.range[2] >> ])

\* String.prototype.replace(/\n\s*\n/g, "\n"): at a line break, the longest
\* stretch of white space that ends in another line break becomes one line break
RECURSIVE ReplaceBlankLines(_)
ReplaceBlankLines(t) ==
  IF t = <<>> THEN <<>>
  ELSE IF t[1].k = "nl"
    THEN LET E == {j \in 2..Len(t) :
                     t[j].k = "nl" /\ \A r \in 2..j : IsSpace(t[r])}
         IN  IF E = {}
               THEN << t[1] >> \o ReplaceBlankLines(Tail(t))
               ELSE LET last == CHOOSE j \in E : \A e \in E : e <= j
                    IN  << NL >> \o ReplaceBlankLines(SubSeq(t, last + 1, Len(t)))
  ELSE << t[1] >> \o ReplaceBlankLines(Tail(t))

\* String.prototype.trim
Trim(t) ==
  LET N == {i \in DOMAIN t : ~IsSpace(t[i])}
  IN  IF N = {} THEN <<>>
      ELSE SubSeq(t, CHOOSE i \in N : \A j \in N : i <= j,
                     CHOOSE i \in N : \A j \in N : j <= i)

normalizeNewlines(text) == Trim(ReplaceBlankLines(text))

\* mutant: a group is rendered by its first item alone
getGroupTextFirstItem(group) == normalizeNewlines(group.items[1].text)

getGroupText(group) ==
  LET text == Join([i \in DOMAIN group.items |-> group.items[i].text], << NL >>)
  IN  normalizeNewlines(text)

\* mutant: the groups are joined with one line break
generateSortedTextSingleBreak(groups) ==
  Join([g \in DOMAIN groups |-> getGroupText(groups[g])], << NL >>)

generateSortedText(groups) ==
  Join([g \in DOMAIN groups |-> getGroupText(groups[g])], << NL, NL >>)

(***************************************************************************)
(* JavaScript values of the rule's options.                                *)
(***************************************************************************)
Undefined == [t |-> "undefined", v |-> "undefined"]

Str(x) == [t |-> "string", v |-> x]

NumV(x) == [t |-> "number", v |-> x]      \* x: the number as it prints

Arr(items) == [t |-> "array", v |-> items]

Obj(f) == [t |-> "object", v |-> f]

StrArr(names) == Arr([i \in DOMAIN names |-> Str(names[i])])

\* the operand of `x || y` counts as true
Truthy(x) ==
  ~ \/ x.t \in {"undefined", "null"}
    \/ x.t = "number" /\ x.v \in {"0", "NaN"}
    \/ x.t = "string" /\ x.v = ""

typeof(x) == IF x.t \in {"array", "null"} THEN "object" ELSE x.t

\* the string entries of an array value, as the strings they are
Strings(arr) == [i \in DOMAIN arr.v |-> arr.v[i].v]

(***************************************************************************)
(* lib/utils/astUtils.js: validateSectionOrder.  An error message is the   *)
(* sequence of the pieces its template concatenates.                       *)
(***************************************************************************)
NoError == [threw |-> FALSE, message |-> <<>>]

Throw(message) == [threw |-> TRUE, message |-> message]

\* mutant: only the type of an entry is checked
validateEntryTypeOnly(section) ==
  IF typeof(section) # "string"
    THEN Throw(<< "Invalid \"sectionOrder\" option: Expected string values, but found ",
                  typeof(section), "." >>)
    ELSE NoError

\* the error of one entry of the array, NoError when the entry is accepted
validateEntry(section) ==
  IF typeof(section) # "string"
    THEN Throw(<< "Invalid \"sectionOrder\" option: Expected string values, but found ",
                  typeof(section), "." >>)
  ELSE IF ~Includes(DEFAULT_SECTION_ORDER, section.v)
    THEN Throw(<< "Invalid \"sectionOrder\" option: \"", section.v,
                  "\" is not a recognized section. Valid sections: " >>
               \o Join([i \in DOMAIN DEFAULT_SECTION_ORDER |->
                          << DEFAULT_SECTION_ORDER[i] >>], << ", " >>))
  ELSE NoError

validateSectionOrder(sectionOrder) ==
  IF sectionOrder.t # "array"
    THEN Throw(<< "Invalid \"sectionOrder\" option: Expected an array, but received ",
                  typeof(sectionOrder), "." >>)
  ELSE LET bad == {i \in DOMAIN sectionOrder.v : validateEntry(sectionOrder.v[i]).threw}
       IN  IF bad = {} THEN NoError
           ELSE validateEntry(sectionOrder.v[CHOOSE i \in bad : \A j \in bad : i <= j])

(***************************************************************************)
(* lib/rules/declaration-order.js                                          *)
(***************************************************************************)
VARIABLES
  options,         \* context.options[0]
  source,          \* sourceCode.text
  phase,           \* "start", "created", "aborted", "linted"
  sectionOrder,    \* create's closure
  lifecycleOrder,  \* create's closure
  error,           \* what create threw
  report,          \* the context.report call of the last pass
  pass,            \* the locals of the last run of Program:exit
  passes           \* fixes applied so far

vars == << options, source, phase, sectionOrder, lifecycleOrder, error, report,
           pass, passes >>

NoReport == [reported |-> FALSE]

NoPass == [ nonImportNodes |-> <<>>, nodesWithSection |-> <<>>, sortedNodes |-> <<>>,
            groups |-> <<>>, sortedText |-> <<>>, fixRange |-> << 0, 0 >>,
            originalText |-> <<>> ]

ReportMessage ==
  "Vue 3 <script setup> declarations are not correctly sorted, run eslint with --fix to automatically fix this."

\* mutant: create goes on after validateSectionOrder has thrown
CreateNoAbort ==
  /\ phase = "start"
  /\ LET so == IF Truthy(options.sectionOrder)
                 THEN options.sectionOrder ELSE StrArr(DEFAULT_SECTION_ORDER)
     IN  /\ sectionOrder' = so
         /\ error' = validateSectionOrder(so)
  /\ lifecycleOrder' = DEFAULT_LIFECYCLE_ORDER
  /\ phase' = "created"
  /\ UNCHANGED << options, source, report, pass, passes >>

\* create(context): the options are read and validated
Create ==
  /\ phase = "start"
  /\ LET so == IF Truthy(options.sectionOrder)
                 THEN options.sectionOrder ELSE StrArr(DEFAULT_SECTION_ORDER)
         lo == IF Truthy(options.lifecycleOrder)
                 THEN options.lifecycleOrder.v ELSE DEFAULT_LIFECYCLE_ORDER
         thrown == validateSectionOrder(so)
     IN  /\ sectionOrder' = so
         /\ lifecycleOrder' = lo
         /\ error' = thrown
         /\ phase' = IF thrown.threw THEN "aborted" ELSE "created"
  /\ UNCHANGED << options, source, report, pass, passes >>

\* the locals of "Program:exit" on the text txt
ProgramExitLocals(txt, so, lo) ==
  LET body == ProgramBody(txt)
      nonImportNodes == SelectSeq(body, LAMBDA child : child.type # "ImportDeclaration")
      nodesWithSection ==
        [i \in DOMAIN nonImportNodes |->
           createNodeWithSection(nonImportNodes[i], i - 1, txt, Strings(so), lo)]
      sortedNodes == sortNodes(nodesWithSection)
      groups == groupNodes(sortedNodes)
      sortedText == generateSortedText(groups)
      fixRange == << nonImportNodes[1].range[1],
                     nonImportNodes[Len(nonImportNodes)].range[2] >>
      originalText == Slice(txt, fixRange[1], fixRange[2])
  IN  IF Len(nonImportNodes) = 0 THEN NoPass
      ELSE [ nonImportNodes |-> nonImportNodes, nodesWithSection |-> nodesWithSection,
             sortedNodes |-> sortedNodes, groups |-> groups, sortedText |-> sortedText,
             fixRange |-> fixRange, originalText |-> originalText ]

\* "Program:exit"(node)
ProgramExit ==
  /\ phase = "created"
  /\ LET l == ProgramExitLocals(source, sectionOrder, lifecycleOrder)
     IN  /\ pass' = l
         /\ report' =
              IF Len(l.nonImportNodes) = 0 THEN NoReport
              ELSE IF l.originalText = l.sortedText THEN NoReport
              ELSE [ reported |-> TRUE,
                     node |-> l.nonImportNodes[1],
                     message |-> ReportMessage,
                     fix |-> [range |-> l.fixRange, text |-> l.sortedText] ]
  /\ phase' = "linted"
  /\ UNCHANGED << options, source, sectionOrder, lifecycleOrder, error, passes >>

\* mutant: the fix replaces the whole text
replaceTextRangeAll(txt, range, text) == text

\* fixer.replaceTextRange(range, text) on the text txt
replaceTextRange(txt, range, text) ==
  Slice(txt, 0, range[1]) \o text \o Slice(txt, range[2], Len(txt))

\* the host applies the fix of the report and lints the result again
ApplyFix ==
  /\ phase = "linted"
  /\ report.reported
  /\ passes < MaxPasses
  /\ source' = replaceTextRange(source, report.fix.range, report.fix.text)
  /\ passes' = passes + 1
  /\ phase' = "start"
  /\ UNCHANGED << options, sectionOrder, lifecycleOrder, error, report, pass >>

Next == Create \/ ProgramExit \/ ApplyFix

(***************************************************************************)
(* Programs: the initial text of a pass.                                   *)
(***************************************************************************)
\* the text of statement id: one line, or two lines with a blank line between
StmtText(id, src, layout) ==
  IF layout = "blank"
    THEN << Code(id, 1, 2, src), NL, NL, Code(id, 2, 2, src) >>
    ELSE << Code(id, 1, 1, src) >>

\* srcs: the statements; commentAt / blankAt: the statement (0: none) that has
\* a leading comment / a blank line in its text; sep: what separates statements
ProgramText(srcs, commentAt, blankAt, sep) ==
  Join([i \in DOMAIN srcs |->
          (IF commentAt = i THEN << Comment(i), NL >> ELSE <<>>)
            \o StmtText(i, srcs[i], IF blankAt = i THEN "blank" ELSE "line")],
       sep)

SeqsUpTo(S, n) == UNION {[1..m -> S] : m \in 1..n}

DefaultOptions == [sectionOrder |-> Undefined, lifecycleOrder |-> Undefined]

InitWith(opts, txt) ==
  /\ options = opts
  /\ source = txt
  /\ phase = "start"
  /\ sectionOrder = Undefined
  /\ lifecycleOrder = DEFAULT_LIFECYCLE_ORDER
  /\ error = NoError
  /\ report = NoReport
  /\ pass = NoPass
  /\ passes = 0

\* text-level family: default options, comments, blank lines, imports
TextKinds == { "import", "emitsVar", "plainVar", "fooCall", "onMounted", "function" }

Init ==
  \E srcs \in SeqsUpTo(TextKinds, MaxStmts) :
    \E deco \in {<< 0, 0 >>} \cup {<< i, 0 >> : i \in DOMAIN srcs}
                  \cup {<< 0, i >> : i \in DOMAIN srcs} :
      \E sep \in {<< NL >>, << NL, NL >>} :
        InitWith(DefaultOptions, ProgramText(srcs, deco[1], deco[2], sep))

Spec == Init /\ [][Next]_vars

\* section-level family: default options, one statement or more of every section
DefaultKinds ==
  { "typeAlias", "propsVar", "emitsVar", "exposeCall", "class", "plainVar", "refVar",
    "useRouteVar", "computedVar", "watchCall", "onMounted", "fooCall", "function" }

InitDefault ==
  \E srcs \in SeqsUpTo(DefaultKinds, MaxStmts) :
    InitWith(DefaultOptions, ProgramText(srcs, 0, 0, << NL >>))

SpecDefault == InitDefault /\ [][Next]_vars

\* sort-level family: a sectionOrder that leaves out "lifecycle" and "functions"
SortKinds == { "onMounted", "onBeforeMount", "onUpdated", "function", "plainVar" }

SortOptions ==
  { [sectionOrder |-> StrArr(<< "defineProps", "plainVars" >>),
     lifecycleOrder |-> Undefined],
    [sectionOrder |-> StrArr(<< "defineProps", "plainVars" >>),
     lifecycleOrder |-> Obj([h \in {"onMounted", "onBeforeMount"} |->
                               IF h = "onMounted" THEN 0 ELSE 1])] }

InitSort ==
  \E srcs \in SeqsUpTo(SortKinds, MaxSortLen) :
    \E opts \in SortOptions :
      InitWith(opts, ProgramText(srcs, 0, 0, << NL >>))

SpecSort == InitSort /\ [][Next]_vars

\* custom-order family: a sectionOrder that lists some of the sections
CustomKinds ==
  { "typeAlias", "class", "propsVar", "plainVar", "refVar", "function", "fooCall",
    "onMounted", "onBeforeMount" }

CustomOptions ==
  { [sectionOrder |-> StrArr(<< "type", "class" >>), lifecycleOrder |-> Undefined],
    [sectionOrder |-> StrArr(<< "defineProps", "plainVars" >>),
     lifecycleOrder |-> Undefined] }

InitCustom ==
  \E srcs \in SeqsUpTo(CustomKinds, MaxStmts) :
    \E opts \in CustomOptions :
      InitWith(opts, ProgramText(srcs, 0, 0, << NL >>))

SpecCustom == InitCustom /\ [][Next]_vars

\* configuration family: the values a sectionOrder option can have
SectionOrderValues ==
  { Undefined, NumV("0"), NumV("42"), Str("type"), Obj("{}"),
    Arr(<<>>),
    StrArr(<< "type", "class" >>),
    StrArr(<< "notATag" >>),
    StrArr(<< "defineProps", "invalidSection" >>),
    StrArr(<< "defineExpose" >>),
    Arr(<< Str("type"), NumV("42") >>),
    Arr(<< NumV("42"), Str("notATag") >>),
    Arr(<< Str("notATag"), NumV("42") >>) }

ConfigKinds == { "plainVar", "typeAlias", "class" }

InitConfig ==
  \E srcs \in SeqsUpTo(ConfigKinds, MaxStmts) :
    \E so \in SectionOrderValues :
      InitWith([sectionOrder |-> so, lifecycleOrder |-> Undefined],
               ProgramText(srcs, 0, 0, << NL >>))

SpecConfig == InitConfig /\ [][Next]_vars

(***************************************************************************)
\* scenario family: single-line statements of the documented examples, under
\* the default options and under a configured lifecycleOrder
ScenarioKinds == { "plainVar", "useRouteCall", "emitsCall", "onBeforeMount", "onMounted" }

CustomLifecycleOrder ==
  Obj([h \in {"onMounted", "onBeforeMount"} |-> IF h = "onMounted" THEN 0 ELSE 1])

ScenarioOptions ==
  { DefaultOptions,
    [sectionOrder |-> Undefined, lifecycleOrder |-> CustomLifecycleOrder],
    [sectionOrder |-> StrArr(<< "lifecycle" >>), lifecycleOrder |-> CustomLifecycleOrder] }

InitScenario ==
  \E srcs \in SeqsUpTo(ScenarioKinds, MaxSortLen) :
    \E opts \in ScenarioOptions :
      InitWith(opts, ProgramText(srcs, 0, 0, << NL >>))

SpecScenario == InitScenario /\ [][Next]_vars

\* classifier family: one statement of every shape the classifier tells apart
ClassifyKinds ==
  { "class", "typeAlias", "interface", "function",
    "arrowVar", "funcExprVar", "cast2ArrowVar", "castHookVar",
    "refVar", "castRefVar", "useRouteVar", "fooVar", "memberCallVar",
    "plainVar", "noInitVar", "refThenArrow", "plainThenRef",
    "watchCall", "onMounted", "fooCall", "memberCall", "castWatchStmt",
    "assign", "ifStmt" }

InitClassify ==
  \E srcs \in SeqsUpTo(ClassifyKinds, MaxClassifyLen) :
    InitWith(DefaultOptions, ProgramText(srcs, 0, 0, << NL >>))

SpecClassify == InitClassify /\ [][Next]_vars

\* rank family: lifecycle hooks under lifecycleOrder objects the schema
\* accepts (additionalProperties: number), with ranks 0..n-1 and with others
RankKinds == { "onMounted", "onBeforeMount", "onUpdated", "plainVar" }

RankOrders ==
  { CustomLifecycleOrder,
    Obj([h \in {"onMounted", "onBeforeMount"} |-> IF h = "onMounted" THEN 5 ELSE 7]),
    Obj([h \in {"onUpdated"} |-> 3]) }

InitRank ==
  \E srcs \in SeqsUpTo(RankKinds, MaxStmts) :
    \E lo \in RankOrders :
      InitWith([sectionOrder |-> Undefined, lifecycleOrder |-> lo],
               ProgramText(srcs, 0, 0, << NL >>))

SpecRank == InitRank /\ [][Next]_vars

(* Properties.  They read the state a pass leaves: `pass` holds the locals *)
(* of the last run of "Program:exit", `report` its report, `error` what    *)
(* create threw.                                                           *)
(***************************************************************************)
Linted == phase = "linted"

\* the position in seq of the item whose original index is idx
PosOf(seq, idx) == CHOOSE p \in DOMAIN seq : seq[p].index = idx

\* the name of the function a statement calls, NULL when it calls none
CalleeOf(node) == extractLifecycleHookName(node)

\* the section the documentation gives a statement of section `section`: the
\* four define macros of INTERFACE_LIST belong to "defineOthers"
DocumentedSection(section) ==
  IF Includes(INTERFACE_LIST, section) THEN "defineOthers" ELSE section

DefaultPosition(section) == IndexOf(DEFAULT_SECTION_ORDER, DocumentedSection(section))

\* C1: idempotence of the fix: once a fix has been applied, the next pass over
\* the resulting text reports nothing.
C1_FixIsIdempotent == (Linted /\ passes >= 1) => ~report.reported

\* C2: stability of sortNodes: two statements with equal sortIndex and, when
\* both are lifecycle hooks, equal lifecycleSortIndex keep their input order.
C2_EqualKeys(a, b) ==
  /\ a.sortIndex = b.sortIndex
  /\ (a.section = "lifecycle" /\ b.section = "lifecycle")
       => a.lifecycleSortIndex = b.lifecycleSortIndex

C2_SortIsStable ==
  Linted =>
    \A i, j \in DOMAIN pass.nodesWithSection :
      (i < j /\ C2_EqualKeys(pass.nodesWithSection[i], pass.nodesWithSection[j]))
        => PosOf(pass.sortedNodes, i - 1) < PosOf(pass.sortedNodes, j - 1)

\* C3: with no options, the output lists the statements in non-decreasing
\* position of their section in the default 13-entry order.
C3_DefaultOrderKept ==
  (Linted /\ options = DefaultOptions) =>
    \A i \in DOMAIN pass.sortedNodes :
      /\ DefaultPosition(pass.sortedNodes[i].section) # -1
      /\ i > 1 => DefaultPosition(pass.sortedNodes[i - 1].section)
                    <= DefaultPosition(pass.sortedNodes[i].section)

\* C4: statements calling defineProps, defineEmits, defineModel, defineExpose,
\* defineOptions or defineSlots all map to the group "define", so adjacent ones
\* are in one block; every other section is a group of its own name.
C4_DefineCallees == {"defineProps", "defineEmits"} \cup Range(INTERFACE_LIST)

C4_DefineIsOneGroup ==
  Linted =>
    /\ \A i \in DOMAIN pass.sortedNodes :
         LET item == pass.sortedNodes[i]
         IN  IF CalleeOf(item.node) \in C4_DefineCallees
               THEN groupName(item.section) = "define"
               ELSE groupName(item.section) = item.section
    /\ \A g \in DOMAIN pass.groups :
         (g > 1 /\ CalleeOf(pass.groups[g].items[1].node) \in C4_DefineCallees)
           => LET before == pass.groups[g - 1].items
              IN  CalleeOf(before[Len(before)].node) \notin C4_DefineCallees

\* the white space that follows position p of text t, up to the next token
\* that is not white space
RECURSIVE SpaceAfter(_, _)
SpaceAfter(t, p) ==
  IF p + 1 > Len(t) \/ ~IsSpace(t[p + 1]) THEN <<>>
  ELSE << t[p + 1] >> \o SpaceAfter(t, p + 1)

\* the position in text t of the last token of the statement of item
LastTokenOf(t, item) ==
  CHOOSE p \in DOMAIN t :
    t[p].k = "code" /\ t[p].id = item.node.id /\ t[p].part = t[p].of

\* the block (index into groups) that holds the k-th sorted item
BlockOf(groups, k) ==
  CHOOSE g \in DOMAIN groups :
    LET before == Len(Flatten([h \in 1..(g - 1) |-> groups[h].items]))
    IN  before < k /\ k <= before + Len(groups[g].items)

\* C5: in the rendered text, consecutive items of one block that is not the
\* unclassified block are separated by exactly one line break, and consecutive
\* blocks by exactly one blank line (two line breaks).
C5_Spacing ==
  Linted =>
    \A k \in 1..(Len(pass.sortedNodes) - 1) :
      LET gap == SpaceAfter(pass.sortedText, LastTokenOf(pass.sortedText, pass.sortedNodes[k]))
          g == BlockOf(pass.groups, k)
      IN  IF BlockOf(pass.groups, k + 1) = g
            THEN pass.groups[g].group # "unknowns" => gap = << NL >>
            ELSE gap = << NL, NL >>

C5_Witness ==
  /\ Linted
  /\ Len(pass.groups) >= 2
  /\ \E g \in DOMAIN pass.groups :
       pass.groups[g].group # "unknowns" /\ Len(pass.groups[g].items) >= 2
  /\ \E i \in DOMAIN pass.nodesWithSection :
       \E p \in DOMAIN pass.nodesWithSection[i].text :
         p > 1 /\ pass.nodesWithSection[i].text[p] = NL
               /\ pass.nodesWithSection[i].text[p - 1] = NL

\* C6: in every block all items have the same group name, and two adjacent
\* blocks have different group names.
C6_Grouping ==
  Linted =>
    /\ \A g \in DOMAIN pass.groups :
         \A i \in DOMAIN pass.groups[g].items :
           groupName(pass.groups[g].items[i].section) = pass.groups[g].group
    /\ \A g \in 1..(Len(pass.groups) - 1) :
         pass.groups[g].group # pass.groups[g + 1].group

C6_Witness ==
  /\ Linted
  /\ Len(pass.groups) >= 2
  /\ \E g \in DOMAIN pass.groups :
       \E i, j \in DOMAIN pass.groups[g].items :
         pass.groups[g].items[i].section # pass.groups[g].items[j].section

\* C7: an unclassified block is rendered as the original source slice from the
\* start of its first statement to the end of its last statement.
C7_UnknownsVerbatim ==
  Linted =>
    \A g \in DOMAIN pass.groups :
      pass.groups[g].group = "unknowns" =>
        LET items == pass.groups[g].items
        IN  getGroupText(pass.groups[g])
              = Slice(source, items[1].node.range[1], items[Len(items)].node.range[2])

\* the first entry of an array value that validation rejects (0: none)
C8_FirstBad(so) ==
  LET bad == {i \in DOMAIN so.v :
                so.v[i].t # "string" \/ so.v[i].v \notin Range(DEFAULT_SECTION_ORDER)}
  IN  IF bad = {} THEN 0 ELSE CHOOSE i \in bad : \A j \in bad : i <= j

C8_Invalid(so) == so.t # "array" \/ C8_FirstBad(so) # 0

C8_ListsAllTags(message) == Range(DEFAULT_SECTION_ORDER) \subseteq Range(message)

C8_Validated == phase # "start"

C9_Listed(item) == Includes(Strings(sectionOrder), item.section)

C9_UnlistedLast ==
  /\ (phase # "start" /\ ~C8_Invalid(sectionOrder)) => ~error.threw
  /\ Linted =>
       \A i, j \in DOMAIN pass.sortedNodes :
         LET a == pass.sortedNodes[i]
             b == pass.sortedNodes[j]
         IN  /\ ~C9_Listed(a) => a.sortIndex = Len(sectionOrder.v)
             /\ (C9_Listed(a) /\ ~C9_Listed(b)) => i < j

C9_Witness ==
  /\ Linted
  /\ options.sectionOrder = StrArr(<< "type", "class" >>)
  /\ \E i, j \in DOMAIN pass.nodesWithSection :
       /\ i < j
       /\ ~C9_Listed(pass.nodesWithSection[i])
       /\ C9_Listed(pass.nodesWithSection[j])
       /\ PosOf(pass.sortedNodes, j - 1) < PosOf(pass.sortedNodes, i - 1)

\* C10: with a sectionOrder that lists only some sections, the statements of
\* the sections that are not listed follow the default order among themselves.
C10_UnlistedInDefaultOrder ==
  Linted =>
    \A i, j \in DOMAIN pass.sortedNodes :
      LET a == pass.sortedNodes[i]
          b == pass.sortedNodes[j]
      IN  ( /\ ~C9_Listed(a) /\ ~C9_Listed(b)
            /\ DefaultPosition(a.section) < DefaultPosition(b.section) ) => i < j

\* the statements of the source text, by catalogue key, in text order
BodyKinds ==
  LET body == ProgramBody(source)
  IN  [i \in DOMAIN body |-> source[body[i].range[1] + 1].src]

\* the catalogue key of the statement of an item of the last pass
KindOf(item) == source[item.node.range[1] + 1].src

\* the statements of the last pass in sorted order, by catalogue key
SortedKinds == [k \in DOMAIN pass.sortedNodes |-> KindOf(pass.sortedNodes[k])]

\* the rendered text is the sorted items' texts, every item a block of its own
OneBlockEach ==
  /\ Len(pass.groups) = Len(pass.sortedNodes)
  /\ pass.sortedText =
       Join([k \in DOMAIN pass.sortedNodes |-> pass.sortedNodes[k].text], << NL, NL >>)

C11_Input ==
  /\ Linted /\ passes = 0
  /\ options = DefaultOptions
  /\ BodyKinds = << "plainVar", "useRouteCall", "emitsCall", "onBeforeMount" >>

\* C11 as stated: for the input const count, useRoute(), defineEmits(),
\* onBeforeMount(fn) under the default order the output is the four blocks
\* defineEmits(), useRoute(), onBeforeMount(...), const count, a blank line
\* between blocks.
C11_ScenarioAsStated ==
  C11_Input =>
    /\ SortedKinds = << "emitsCall", "useRouteCall", "onBeforeMount", "plainVar" >>
    /\ OneBlockEach

\* C11 (amended): for that input the output is the four blocks defineEmits(),
\* const count, useRoute(), onBeforeMount(...), a blank line between blocks:
\* plainVars precede composables in the default order, and onBeforeMount is
\* not placed before useRoute.
C11_Scenario ==
  C11_Input =>
    /\ SortedKinds = << "emitsCall", "plainVar", "useRouteCall", "onBeforeMount" >>
    /\ OneBlockEach
    /\ report.reported /\ report.fix.text = pass.sortedText

C11_Witness == C11_Input /\ report.reported

C12_Input ==
  /\ Linted /\ passes = 0
  /\ options = DefaultOptions
  /\ BodyKinds = << "propsVar", "emitsVar" >>
  /\ pass.originalText = getText(source, pass.nonImportNodes[1]) \o << NL >>
                           \o getText(source, pass.nonImportNodes[2])

\* C12: a defineProps() statement directly followed by a defineEmits()
\* statement, one line break between them and nothing else in the program, is
\* already canonical under the default configuration: the two are one block
\* and the pass reports nothing and offers no fix.
C12_DefinePairIsCanonical ==
  C12_Input =>
    /\ Len(pass.groups) = 1
    /\ pass.groups[1].group = "define"
    /\ pass.sortedText = pass.originalText
    /\ report = NoReport

C12_Witness == C12_Input /\ Len(pass.sortedNodes) = 2

C13_Input ==
  /\ Linted /\ passes = 0
  /\ options.lifecycleOrder = CustomLifecycleOrder
  /\ BodyKinds = << "onMounted", "onBeforeMount" >>

\* C13: with lifecycleOrder {onMounted: 0, onBeforeMount: 1} a source that has
\* onMounted(...) followed by onBeforeMount(...) is already canonical: the two
\* hooks keep their order and the pass reports nothing, although under the
\* default lifecycleOrder the same source is reordered and reported.
C13_CustomLifecycleIsCanonical ==
  C13_Input =>
    /\ SortedKinds = << "onMounted", "onBeforeMount" >>
    /\ report = NoReport
    /\ LET d == ProgramExitLocals(source, sectionOrder, DEFAULT_LIFECYCLE_ORDER)
       IN  /\ d.sortedNodes[1].index = 1 /\ d.sortedNodes[2].index = 0
           /\ d.sortedText # d.originalText

C13_Witness ==
  /\ C13_Input
  /\ pass.sortedNodes[1].lifecycleSortIndex = Num(0)
  /\ pass.sortedNodes[2].lifecycleSortIndex = Num(1)

\* C14: among lifecycle-hook statements the sorted order is ascending in the
\* rank the configured lifecycleOrder gives them: a hook of lower rank is
\* placed before every hook of higher rank, whatever their order in the source.
C14_LifecycleByRank ==
  Linted =>
    \A i, j \in DOMAIN pass.sortedNodes :
      LET a == pass.sortedNodes[i]
          b == pass.sortedNodes[j]
      IN  ( /\ a.section = "lifecycle" /\ b.section = "lifecycle"
            /\ a.lifecycleSortIndex.v < b.lifecycleSortIndex.v ) => i < j

\* C15: when the original text over the surviving statements and the rendered
\* text are equal after normalizeNewlines (blank-line runs collapsed, ends
\* trimmed), the pass reports nothing and offers no fix.
C15_NormalizedComparison ==
  (Linted /\ Len(pass.nonImportNodes) > 0) =>
    ( normalizeNewlines(pass.originalText) = normalizeNewlines(pass.sortedText)
        => report = NoReport )

\* the positions at which the statements that are not imports start
SurvivingStarts(txt) ==
  {p \in StmtStarts(txt) : Node(txt[p].src).type # "ImportDeclaration"}

Min(S) == CHOOSE x \in S : \A y \in S : x <= y

Max(S) == CHOOSE x \in S : \A y \in S : y <= x

\* the range [start, end) from the first to the last surviving statement
SurvivingSpan(txt) ==
  << Min(SurvivingStarts(txt)) - 1, StmtEnd(txt, Max(SurvivingStarts(txt))) >>

C16_ReportShape ==
  Linted =>
    IF SurvivingStarts(source) = {} THEN report = NoReport
    ELSE report.reported =>
           /\ report.fix.range = SurvivingSpan(source)
           /\ report.fix.text = pass.sortedText
           /\ report.fix.text = generateSortedText(groupNodes(pass.sortedNodes))
           /\ report.node.range[1] = SurvivingSpan(source)[1]
           /\ report.node.type # "ImportDeclaration"

C16_FixStep ==
  (phase = "linted" /\ phase' = "start") =>
    LET span == SurvivingSpan(source)
    IN  source' = SubSeq(source, 1, span[1]) \o pass.sortedText
                    \o SubSeq(source, span[2] + 1, Len(source))

\* C16: a pass reports at most once; its fix replaces exactly the range from
\* the start of the first statement that is not an import to the end of the
\* last one by the rendered text, the report is anchored at that first
\* statement, the text outside the range is left as it is, and a program with
\* no such statement gets no report.
C16_EditShape == []C16_ReportShape /\ [][C16_FixStep]_vars

C16_Witness ==
  /\ phase = "start" /\ passes = 1
  /\ report.reported
  /\ report.fix.range[1] > 0
  /\ source[1].src = "import"

C17_Aborted ==
  /\ error.threw =>
       /\ phase = "aborted"
       /\ pass = NoPass
       /\ report = NoReport
       /\ passes = 0
  /\ phase \in {"created", "linted"} => ~error.threw /\ ~C8_Invalid(sectionOrder)

\* the handler runs only after create has returned, and nothing runs after
\* create has thrown
C17_Order ==
  /\ error.threw => UNCHANGED vars
  /\ pass' # pass => (phase = "created" /\ ~error.threw)
  /\ error' # error => (phase = "start" /\ pass' = pass /\ report' = report)

\* C17: sectionOrder is validated in create, before the handler classifies any
\* statement; when validation fails the pass is aborted with the error: no
\* statement is classified, nothing is reported and no fix is offered.
C17_FailFast == []C17_Aborted /\ [][C17_Order]_vars

C17_Witness ==
  /\ error.threw
  /\ phase = "aborted"
  /\ Len(ProgramBody(source)) >= 2

\* a occurs in b as a contiguous run
Occurs(a, b) ==
  \E p \in 0..(Len(b) - Len(a)) : SubSeq(b, p + 1, p + Len(a)) = a

\* C18: the rendered text contains the original source text of every
\* surviving statement unchanged, also when that text spans several lines and
\* has a blank line in it.
C18_StatementTextVerbatim ==
  Linted =>
    \A i \in DOMAIN pass.nonImportNodes :
      Occurs(getText(source, pass.nonImportNodes[i]), pass.sortedText)

\* the first token after position p of text t that is not white space
NextTokenAfter(t, p) == t[p + Len(SpaceAfter(t, p)) + 1]

\* C19: the comments right before a statement are part of its rendered text
\* (the comment texts joined by line breaks, a line break, the statement
\* text) and move with it, so that once the fix has been applied every such
\* comment occurs exactly once in the text, directly before its statement.
C19_CommentsMoveWithStatement ==
  /\ Linted =>
       \A i \in DOMAIN pass.nodesWithSection :
         LET item == pass.nodesWithSection[i]
         IN  item.text =
               IF Len(item.comments) > 0
                 THEN Join(item.comments, << NL >>) \o << NL >>
                        \o getText(source, item.node)
                 ELSE getText(source, item.node)
  /\ passes >= 1 =>
       \A p \in DOMAIN source :
         source[p].k = "comment" =>
           /\ \A q \in DOMAIN source : source[q] = source[p] => q = p
           /\ p + Len(SpaceAfter(source, p)) + 1 <= Len(source)
           /\ NextTokenAfter(source, p).k = "code"
           /\ NextTokenAfter(source, p).id = source[p].id

\* the expression e without the casts around it
RECURSIVE C20_Uncast(_)
C20_Uncast(e) ==
  IF e.type \in {"TSAsExpression", "TSTypeAssertion"} THEN C20_Uncast(e.expression) ELSE e

\* the resolver's tag of e when e is a call with an identifier callee and the
\* resolver knows the callee, else none
C20_CallTag(e, none) ==
  IF e.type # "CallExpression" THEN none
  ELSE IF e.callee.type # "Identifier" THEN none
  ELSE IF getCallExpressionSection(e.callee.name) = NULL THEN none
  ELSE getCallExpressionSection(e.callee.name)

\* the tag of a statement by its shape, first match wins; noInit is the tag of
\* a variable binding without an initializer
C20_Tag(node, noInit) ==
  IF node.type = "ClassDeclaration" THEN "class"
  ELSE IF node.type \in {"TSTypeAliasDeclaration", "TSInterfaceDeclaration"} THEN "type"
  ELSE IF node.type = "FunctionDeclaration" THEN "functions"
  ELSE IF node.type = "VariableDeclaration"
    THEN LET init == node.declarations[1].init
         IN  IF init.type = NULL THEN noInit
             ELSE IF C20_Uncast(init).type
                       \in {"FunctionExpression", "ArrowFunctionExpression"}
               THEN "functions"
             ELSE C20_CallTag(C20_Uncast(init), "plainVars")
  ELSE IF node.type = "ExpressionStatement"
    THEN C20_CallTag(node.expression, "unknowns")
  ELSE "unknowns"

C21_Expected(name) ==
  IF name = "defineProps" THEN "defineProps"
  ELSE IF name = "defineEmits" THEN "defineEmits"
  ELSE IF name \in {"defineModel", "defineExpose", "defineOptions", "defineSlots"}
    THEN "defineOthers"
  ELSE IF name \in {"ref", "reactive", "shallowRef", "shallowReactive",
                    "shallowReadonly", "markRaw"}
    THEN "reactiveVars"
  ELSE IF StartsWith(name, "use") THEN "composables"
  ELSE IF name = "computed" THEN "computed"
  ELSE IF name = "watch" THEN "watchers"
  ELSE IF name \in Range(LIFECYCLE_LIST) THEN "lifecycle"
  ELSE NULL

\* C21: for the callee name of every call statement the resolver returns
\* defineProps, defineEmits, defineOthers (for the four other define macros),
\* reactiveVars, composables, computed, watchers, lifecycle or none as the
\* name says, so every tag it returns is one of the 13 tags of
\* DEFAULT_SECTION_ORDER.
C21_CalleeResolver ==
  Linted =>
    \A i \in DOMAIN pass.nodesWithSection :
      LET name == CalleeOf(pass.nodesWithSection[i].node)
      IN  name # NULL =>
            /\ getCallExpressionSection(name) = C21_Expected(name)
            /\ getCallExpressionSection(name) # NULL =>
                 Includes(DEFAULT_SECTION_ORDER, getCallExpressionSection(name))

\* the items of the last pass whose statement is a variable binding without
\* an initializer
C22_NoInit(item) ==
  /\ item.node.type = "VariableDeclaration"
  /\ item.node.declarations[1].init.type = NULL

\* the block of the last pass that holds the item of original index idx
C22_BlockOf(idx) ==
  CHOOSE g \in DOMAIN pass.groups :
    \E k \in DOMAIN pass.groups[g].items : pass.groups[g].items[k].index = idx

RECURSIVE C23_Depth(_)
C23_Depth(e) ==
  IF e.type \in {"TSAsExpression", "TSTypeAssertion"} THEN 1 + C23_Depth(e.expression) ELSE 0

\* the variable statement with the casts around its initializers taken off
C23_Bare(node) ==
  VarDecl([d \in DOMAIN node.declarations |-> C20_Uncast(node.declarations[d].init)])

\* C23: a variable binding whose initializer is wrapped in casts, however
\* many, has the tag and the lifecycle hook name of the same binding with the
\* bare inner expression, and unwrapping ends at the first node that is not a
\* cast.
C23_CastUnwrapping ==
  Linted =>
    \A i \in DOMAIN pass.nodesWithSection :
      LET item == pass.nodesWithSection[i]
      IN  item.node.type = "VariableDeclaration" =>
            /\ item.section = getSection(C23_Bare(item.node))
            /\ extractLifecycleHookName(item.node)
                 = extractLifecycleHookName(C23_Bare(item.node))
            /\ item.lifecycleSortIndex =
                 (IF getSection(C23_Bare(item.node)) = "lifecycle"
                    THEN getLifecycleSortIndex(C23_Bare(item.node), lifecycleOrder)
                    ELSE Null)
            /\ ~isTSNode(unwrapTypeCast(item.node.declarations[1].init))

C23_Witness ==
  /\ Linted
  /\ \E i, j \in DOMAIN pass.nodesWithSection :
       /\ pass.nodesWithSection[i].node.type = "VariableDeclaration"
       /\ pass.nodesWithSection[j].node.type = "VariableDeclaration"
       /\ C23_Depth(pass.nodesWithSection[i].node.declarations[1].init) = 2
       /\ pass.nodesWithSection[i].section = "functions"
       /\ C23_Depth(pass.nodesWithSection[j].node.declarations[1].init) = 1
       /\ pass.nodesWithSection[j].section = "lifecycle"
       /\ extractLifecycleHookName(pass.nodesWithSection[j].node) = "onMounted"

\* initializers a later declarator can have
C24_Inits ==
  { NoNode, Leaf("Literal"), Leaf("ArrowFunctionExpression"), Call(Ident("ref")),
    Call(Ident("onMounted")), Cast("TSAsExpression", Call(Ident("computed"))) }

\* the variable statement node with `init` as the initializer of every
\* declarator after the first
C24_WithLater(node, init) ==
  VarDecl([d \in DOMAIN node.declarations |->
             IF d = 1 THEN node.declarations[1].init ELSE init])

\* C24: the tag of a variable statement with several declarators is the tag of
\* its first declarator alone, whatever the initializers of the later
\* declarators are.
C24_FirstDeclaratorDecides ==
  Linted =>
    \A i \in DOMAIN pass.nodesWithSection :
      LET item == pass.nodesWithSection[i]
      IN  item.node.type = "VariableDeclaration" =>
            /\ item.section = getSection(VarDecl(<< item.node.declarations[1].init >>))
            /\ \A init \in C24_Inits :
                 getSection(C24_WithLater(item.node, init)) = item.section

C24_Witness ==
  /\ Linted
  /\ BodyKinds = << "refThenArrow", "plainThenRef" >>
  /\ pass.nodesWithSection[1].section = "reactiveVars"
  /\ pass.nodesWithSection[2].section = "plainVars"

C25_Listed(item) == CalleeOf(item.node) \in DOMAIN lifecycleOrder

\* C25: a lifecycle hook whose name is not a key of lifecycleOrder has rank =
\* number of keys of lifecycleOrder and is placed after every lifecycle hook
\* whose name is a key, whatever numbers lifecycleOrder holds; statements of
\* other sections have no secondary key.
C25_UnlistedHookLast ==
  Linted =>
    \A i \in DOMAIN pass.sortedNodes :
      LET a == pass.sortedNodes[i]
      IN  IF a.section # "lifecycle" THEN a.lifecycleSortIndex = Null
          ELSE ~C25_Listed(a) =>
                 /\ a.lifecycleSortIndex = Num(Cardinality(DOMAIN lifecycleOrder))
                 /\ \A j \in DOMAIN pass.sortedNodes :
                      ( /\ pass.sortedNodes[j].section = "lifecycle"
                        /\ C25_Listed(pass.sortedNodes[j]) ) => j < i

\* a is before b by the comparator of sortNodes
C26_Before(a, b) == compareNodes(a, b) < 0

\* C26: on the tagged items of a pass the comparator is a strict total order:
\* irreflexive, antisymmetric, transitive, and any two distinct items are
\* comparable, for every valid configuration.
C26_StrictTotalOrder ==
  Linted =>
    LET D == DOMAIN pass.nodesWithSection
        item(i) == pass.nodesWithSection[i]
    IN  /\ \A i \in D : ~C26_Before(item(i), item(i))
        /\ \A i, j \in D : ~(C26_Before(item(i), item(j)) /\ C26_Before(item(j), item(i)))
        /\ \A i, j \in D : i # j => (C26_Before(item(i), item(j)) \/ C26_Before(item(j), item(i)))
        /\ \A i, j, k \in D :
             (C26_Before(item(i), item(j)) /\ C26_Before(item(j), item(k)))
               => C26_Before(item(i), item(k))

\* C27: the blocks of groupNodes are non-empty and their item lists, put one
\* after the other, are the sorted sequence: every item is in exactly one
\* block and the order is kept; no item gives no block.
C27_BlockPartition ==
  /\ groupNodes(<<>>) = <<>>
  /\ Linted =>
       /\ pass.groups = groupNodes(pass.sortedNodes)
       /\ \A g \in DOMAIN pass.groups : Len(pass.groups[g].items) >= 1
       /\ Flatten([g \in DOMAIN pass.groups |-> pass.groups[g].items]) = pass.sortedNodes

C27_Witness ==
  /\ Linted
  /\ Len(pass.sortedNodes) = 3
  /\ Len(pass.groups) = 2
  /\ Len(pass.groups[1].items) = 2
  /\ pass.sortedNodes # pass.nodesWithSection

\* C28: the range recorded for an unclassified block is [least start,
\* greatest end) over its member statements, and no statement of another
\* block starts inside it.
C28_UnknownsRange ==
  Linted =>
    \A g \in DOMAIN pass.groups :
      pass.groups[g].group = "unknowns" =>
        LET items == pass.groups[g].items
            range == pass.groups[g].range
        IN  /\ range[1] = Min({items[k].node.range[1] : k \in DOMAIN items})
            /\ range[2] = Max({items[k].node.range[2] : k \in DOMAIN items})
            /\ \A h \in DOMAIN pass.groups :
                 h # g =>
                   \A k \in DOMAIN pass.groups[h].items :
                     LET start == pass.groups[h].items[k].node.range[1]
                     IN  ~(range[1] <= start /\ start < range[2])

C29_ImportsKept ==
  (phase = "linted" /\ phase' = "start") =>
    \A p \in DOMAIN source :
      (source[p].k = "code" /\ source[p].src = "import") =>
        \E q \in DOMAIN source' : source'[q] = source[p]

\* C29: applying the fix removes no import: every import statement of the
\* text, also one that stands between the first and the last statement that
\* is not an import, is still in the text after the fix.
C29_FixKeepsImports == [][C29_ImportsKept]_vars

\* the positions of text t that hold statement text
CodeAt(t) == {p \in DOMAIN t : t[p].k = "code"}

\* the statement text of the surviving statements of the source
SurvivingCode ==
  {source[p] : p \in {q \in CodeAt(source) :
                        Node(source[q].src).type # "ImportDeclaration"}}

====
